---- MODULE Spec2Model ----
(***************************************************************************)
(* Model of the PTM chat API: the /chat and /chat-upload handlers          *)
(* (routes/chat.py), the prompt assembly and in-memory conversation        *)
(* history (services/openai_chat.py), the listing scraper and image        *)
(* download (services/url_scraper.py), the vision analysis                 *)
(* (services/piano_analysis.py) and the photo-analysis quota (limiter.py). *)
(*                                                                         *)
(* Each request handler is a process whose pc advances at the awaits of    *)
(* the code.  get_chat_response contains no await (the OpenAI client is    *)
(* the synchronous one), so it is one atomic step.                         *)
(***************************************************************************)
EXTENDS Integers, Sequences, FiniteSets, TLC

VARIABLES conversation_history, analysis_counts, today, req, fullLog,
          turns, quota_last, recorded

vars == <<conversation_history, analysis_counts, today, req, fullLog,
          turns, quota_last, recorded>>

(***************************************************************************)
(* Bounds of the model.                                                    *)
(***************************************************************************)
\* requests accepted in one behaviour of Spec
MaxTurns == 2
\* requests accepted in one behaviour of SpecHistory
MaxHistoryTurns == 11
\* requests accepted in one behaviour of SpecQuota
MaxQuotaTurns == 1
\* requests accepted in one behaviour of SpecConcurrent
MaxConcurrentTurns == 2
\* largest number of image URLs a scraped listing carries
MaxListingUrls == 2
\* requests accepted in one behaviour of SpecDownload
MaxDownloadTurns == 1
\* largest number of image URLs of a listing in SpecDownload
MaxDownloadUrls == 6
\* last calendar day of a behaviour (days are 0..MaxDay)
MaxDay == 1
\* largest stored analysis count of a key
MaxCount == 4

(***************************************************************************)
(* Program constants.                                                      *)
(***************************************************************************)
\* openai_chat.py: len(...) > 20 / [-20:]
RetentionWindow == 20
\* routes/chat.py MAX_IMAGES
MAX_IMAGES == 3
\* url_scraper.py MAX_LISTING_IMAGES
MAX_LISTING_IMAGES == 3
\* limiter.py MAX_ANALYSES_PER_DAY
MAX_ANALYSES_PER_DAY == 3
\* routes/chat.py ALLOWED_IMAGE_TYPES
ALLOWED_IMAGE_TYPES == {"image/jpeg", "image/png", "image/webp", "image/gif"}

(***************************************************************************)
(* Input domains.                                                          *)
(***************************************************************************)
Reqs == {"r1", "r2"}
Sessions == {"s1", "s2"}
Keys == {"ip1", "ip2"}

KijijiUrl == "https://kijiji.ca/v-piano/123"
OtherUrl == "https://example.com/ad"
NoUrl == ""

PlainMsg == "Bonjour"
OtherMsg == "Merci"
KijijiMsg == "Check this https://kijiji.ca/v-piano/123 please"
TwoUrlMsg == "https://example.com/ad et https://kijiji.ca/v-piano/123"
EmptyMsg == ""

Messages == {PlainMsg, KijijiMsg, TwoUrlMsg}
HistoryMessages == {PlainMsg, OtherMsg}
UploadMessages == {EmptyMsg, PlainMsg}

Uploads == { <<>>, <<"image/jpeg">>, <<"image/png", "application/pdf">>,
             <<"image/jpeg", "image/png", "image/webp", "image/gif">> }

DefaultUploadMessage == "J'ai envoye des photos de mon piano pour une evaluation."
SystemPrompt == "SYSTEM_PROMPT"
Reply == "assistant reply"

(***************************************************************************)
(* Python values.  A dict is modelled by the set of its keys that hold a   *)
(* truthy value; tag identifies its content.  None is a dict-shaped value  *)
(* with isNone set, so that the two falsy values None and {} stay apart.   *)
(***************************************************************************)
None == [isNone |-> TRUE, truthy |-> {}, tag |-> "None"]
EmptyDict == [isNone |-> FALSE, truthy |-> {}, tag |-> "empty"]
ClientRecord == [isNone |-> FALSE,
                 truthy |-> {"marque_detectee", "verdict", "score", "commentaire_expert",
                             "problemes_detectes", "historique_marque"},
                 tag |-> "client"]
VisionFull == [isNone |-> FALSE,
               truthy |-> {"success", "url_zoom", "marque_detectee", "modele_detecte",
                           "annee_estimee", "historique_marque", "verdict", "score",
                           "etat_general", "etat_clavier", "etat_boitier",
                           "etat_mecanique_visible", "problemes_detectes",
                           "points_positifs", "travaux_recommandes",
                           "valeur_marche_estimee", "potentiel_restauration",
                           "commentaire_expert", "recommandation_contextuelle",
                           "prochaine_etape", "urgence_intervention"},
               tag |-> "vision"]
\* parse_gemini_json fell back to {"commentaire_expert": response_text}
VisionMinimal == [isNone |-> FALSE,
                  truthy |-> {"success", "url_zoom", "marque_detectee", "verdict",
                              "commentaire_expert"},
                  tag |-> "vision-minimal"]

ClientRecords == {None, EmptyDict, ClientRecord}

\* Python truthiness of an Optional[Dict]
Truthy(d) == ~d.isNone /\ d.truthy # {}


(***************************************************************************)
(* services/url_scraper.py                                                 *)
(***************************************************************************)
\* URL_PATTERN.findall(text): the matches of https?://[^\s<>"')]+ in order
find_urls(text) ==
    CASE text = KijijiMsg -> <<KijijiUrl>>
      [] text = TwoUrlMsg -> <<OtherUrl, KijijiUrl>>
      [] OTHER -> <<>>

\* url.split("/")[2]
Domain(url) ==
    CASE url = KijijiUrl -> "kijiji.ca"
      [] url = OtherUrl -> "example.com"
      [] OTHER -> "web"

\* "kijiji.ca" in url.lower()
IsKijiji(url) == url = KijijiUrl

\* A listing record: the optional keys it holds with a truthy value, and its
\* image URLs (numbered 1..n in page order).  None is the failed fetch.
NoListing == [isNone |-> TRUE, source |-> "", url |-> NoUrl, keys |-> {}, images |-> <<>>]

\* The image URLs found in a page, in page order: n of them, numbered; with
\* dup the last one repeats the first (the same URL in two tags).
PageImages(n, dup) == [i \in 1..n |-> IF dup /\ n > 1 /\ i = n THEN 1 ELSE i]

PageImageLists(maxUrls) == {PageImages(n, dup) : n \in 0..maxUrls, dup \in BOOLEAN}

\* _extract_kijiji_images._add: a URL already seen is not added again
RECURSIVE Dedup(_)
Dedup(s) ==
    IF s = <<>> THEN <<>>
    ELSE LET front == Dedup(SubSeq(s, 1, Len(s) - 1))
             last == s[Len(s)]
         IN IF \E i \in 1..Len(front) : front[i] = last THEN front
            ELSE Append(front, last)

\* _extract_kijiji (images deduplicated) or _extract_generic (every og:image)
ListingOf(url, keys, pageImages) ==
    [isNone |-> FALSE,
     source |-> IF IsKijiji(url) THEN "Kijiji" ELSE "annonce",
     url |-> url, keys |-> keys,
     images |-> IF IsKijiji(url) THEN Dedup(pageImages) ELSE pageImages]

ListingKeySets == { {}, {"title", "price", "description"} }

\* SubSeq that tolerates an end beyond the sequence, as a Python slice does
Take(s, n) == SubSeq(s, 1, IF n < Len(s) THEN n ELSE Len(s))

\* format_listing_context(listing): the parts joined by "\n"
format_listing_context(listing) ==
    <<"Le client a partage une annonce", listing.source>>
    \o (IF "title" \in listing.keys THEN <<"Titre">> ELSE <<>>)
    \o (IF "price" \in listing.keys THEN <<"Prix demande">> ELSE <<>>)
    \o (IF "location" \in listing.keys THEN <<"Emplacement">> ELSE <<>>)
    \o (IF "description" \in listing.keys THEN <<"Description">> ELSE <<>>)
    \o (IF Len(listing.images) > 0 THEN <<"Photos dans l'annonce">> ELSE <<>>)
    \o <<"Lien", listing.url>>

\* routes/chat.py: the minimal context built when scraping failed
FallbackSource(url) == IF Domain(url) = "kijiji.ca" THEN "Kijiji" ELSE Domain(url)

FallbackContext(url) ==
    <<"Le client a partage un lien d'annonce", FallbackSource(url), url,
      "IMPORTANT : Nous n'avons pas pu recuperer les details de l'annonce">>

\* listing_context = None
NoContext == <<>>

(***************************************************************************)
(* services/openai_chat.py: the analysis system block, one element a line  *)
(***************************************************************************)
Line(cond, text) == IF cond THEN <<text>> ELSE <<>>

RenderAnalysis(er) ==
    <<"## RESULTAT D'EXPERTISE PIANO", "", "Marque", "Modele", "Age estime",
      "Verdict", "Score global", "Type de mecanique", "Recommandation d'achat">>
    \o Line("alertes" \in er.truthy, "ALERTES")
    \o Line("historique_marque" \in er.truthy, "Historique de la marque")
    \o Line("etat_general" \in er.truthy, "Etat general")
    \o Line("etat_clavier" \in er.truthy, "Etat du clavier")
    \o Line("etat_boitier" \in er.truthy, "Etat du boitier")
    \o Line("etat_mecanique_visible" \in er.truthy, "Mecanique visible")
    \o Line("problemes_detectes" \in er.truthy, "Problemes detectes")
    \o Line("points_positifs" \in er.truthy, "Points positifs")
    \o Line("historique_marque" \in er.truthy, "- Historique de la marque")
    \o Line("travaux_recommandes" \in er.truthy, "Travaux recommandes")
    \o Line("valeur_marche_estimee" \in er.truthy, "Valeur sans travaux")
    \o Line("valeur_marche_estimee" \in er.truthy, "Valeur avec travaux")
    \o Line("potentiel_restauration" \in er.truthy, "Potentiel de restauration")
    \o Line("urgence_intervention" \in er.truthy, "Urgence d'intervention")
    \o Line("recommandation_contextuelle" \in er.truthy, "Recommandation contextuelle")
    \o Line("prochaine_etape" \in er.truthy, "Prochaine etape recommandee")
    \o <<"Commentaire expert", "", "Utilise TOUTES ces informations">>
    \o Line("photos_recues" \in er.truthy, "- Photos recues du client")
    \o (IF "photos_suggerees" \in er.truthy
        THEN <<"- Photos supplementaires suggerees">>
        ELSE <<"- Photos suffisantes">>)
    \o <<"", "Utilise ces informations pour personnaliser tes reponses", er.tag>>

\* One element of the messages list.  kind names the append that produced it.
Block(role, kind, content) == [role |-> role, kind |-> kind, content |-> content]

\* A stored history entry {"role": ..., "content": ...}
Entry(role, content) == [role |-> role, content |-> content]

\* messages.extend(conversation_history[session_id])
HistoryBlocks(h) == [i \in 1..Len(h) |-> Block(h[i].role, "history", <<h[i].content>>)]


\* mutant: one list serves every session
StoredHistoryShared(hist, sid) ==
    IF DOMAIN hist # {} THEN hist[CHOOSE s \in DOMAIN hist : TRUE] ELSE <<>>

\* conversation_history.get(session_id, [])
StoredHistory(hist, sid) == IF sid \in DOMAIN hist THEN hist[sid] ELSE <<>>

\* mutant: the listing block is appended after the history
BuildMessagesListingLate(hist, message, sid, er, lc) ==
    <<Block("system", "system_prompt", <<SystemPrompt>>)>>
    \o (IF Truthy(er) THEN <<Block("system", "analysis", RenderAnalysis(er))>> ELSE <<>>)
    \o HistoryBlocks(StoredHistory(hist, sid))
    \o (IF lc # NoContext THEN <<Block("system", "listing", lc)>> ELSE <<>>)
    \o <<Block("user", "user", <<message>>)>>

\* the messages list of get_chat_response, built append by append
BuildMessages(hist, message, sid, er, lc) ==
    <<Block("system", "system_prompt", <<SystemPrompt>>)>>
    \o (IF Truthy(er) THEN <<Block("system", "analysis", RenderAnalysis(er))>> ELSE <<>>)
    \o (IF lc # NoContext THEN <<Block("system", "listing", lc)>> ELSE <<>>)
    \o HistoryBlocks(StoredHistory(hist, sid))
    \o <<Block("user", "user", <<message>>)>>

\* mutant: the trim keeps the first 20 entries, lst[:20]
TrimHistoryOldest(h) ==
    IF Len(h) > RetentionWindow THEN SubSeq(h, 1, RetentionWindow) ELSE h

\* lst[-20:] when len(lst) > 20
TrimHistory(h) ==
    IF Len(h) > RetentionWindow
    THEN SubSeq(h, Len(h) - RetentionWindow + 1, Len(h))
    ELSE h


\* mutant: the system prompt of the turn is stored with the exchange
AppendTurnStoresSystem(h, message, reply) ==
    TrimHistory(h \o <<Entry("system", SystemPrompt), Entry("user", message),
                       Entry("assistant", reply)>>)

\* the history update of a successful get_chat_response
AppendTurn(h, message, reply) ==
    TrimHistory(h \o <<Entry("user", message), Entry("assistant", reply)>>)

(***************************************************************************)
(* limiter.py: the per-IP daily photo-analysis counter                     *)
(***************************************************************************)
NoRecord == [present |-> FALSE, date |-> 0, count |-> 0]


\* mutant: a stored record counts whatever its date
StaleIgnoresDate(counts, day, ip) == ~counts[ip].present

\* not record or record["date"] != today
Stale(counts, day, ip) == ~counts[ip].present \/ counts[ip].date # day

can_analyze(counts, day, ip) ==
    IF Stale(counts, day, ip) THEN TRUE
    ELSE counts[ip].count < MAX_ANALYSES_PER_DAY

Max0(n) == IF n > 0 THEN n ELSE 0

analyses_remaining(counts, day, ip) ==
    IF Stale(counts, day, ip) THEN MAX_ANALYSES_PER_DAY
    ELSE Max0(MAX_ANALYSES_PER_DAY - counts[ip].count)

record_analysis(counts, day, ip) ==
    IF Stale(counts, day, ip)
    THEN [counts EXCEPT ![ip] = [present |-> TRUE, date |-> day, count |-> 1]]
    ELSE [counts EXCEPT ![ip].count = @ + 1]


(***************************************************************************)
(* services/piano_analysis.py: analyze_piano_images.  The outcome of the   *)
(* Gemini call is an input; the result is the returned dict or the raised  *)
(* HTTPException (status, detail).                                         *)
(***************************************************************************)
VisionOutcomes == {"ok_full", "ok_minimal", "no_key", "service_error", "blocked", "empty"}

Returned(value) == [raised |-> FALSE, status |-> 200, detail |-> "", value |-> value]
Raised(status, detail) == [raised |-> TRUE, status |-> status, detail |-> detail, value |-> None]

analyze_piano_images(outcome) ==
    CASE outcome = "no_key" -> Raised(500, "GEMINI_API_KEY non configure")
      [] outcome = "service_error" ->
             Raised(502, "Erreur de communication avec le service d'analyse")
      [] outcome = "blocked" -> Raised(422, "L'image n'a pas pu etre analysee")
      [] outcome = "empty" ->
             Raised(502, "Le service d'analyse a retourne une reponse vide")
      [] outcome = "ok_minimal" -> Returned(VisionMinimal)
      [] OTHER -> Returned(VisionFull)

(***************************************************************************)
(* State of one request handler.                                           *)
(***************************************************************************)
NoCalls == [scrape |-> 0, download |-> 0, vision |-> 0, chat |-> 0]

NoResponse == [status |-> 0, detail |-> "", reply |-> "", expertise_result |-> None]

Response(status, detail, reply, er) ==
    [status |-> status, detail |-> detail, reply |-> reply, expertise_result |-> er]

\* main.py rate_limit_handler
RateLimited ==
    Response(429, "Vous avez atteint la limite de messages", "", None)

IdleReq ==
    [pc |-> "idle", endpoint |-> "", ip |-> "", message |-> "", session_id |-> "",
     body_er |-> None, expertise_result |-> None, urls |-> <<>>,
     listing |-> NoListing, scrape_outcome |-> "", listing_context |-> NoContext,
     urls_to_try |-> <<>>, next_img |-> 1, images_data |-> <<>>,
     requested |-> <<>>, dl_results |-> <<>>, seq |-> 0,
     images |-> <<>>, vision_outcome |-> "", messages |-> <<>>,
     history_before |-> <<>>, chat_ok |-> FALSE,
     response |-> NoResponse, calls |-> NoCalls, capped |-> FALSE]

Init ==
    /\ conversation_history = <<>>
    /\ analysis_counts = [ip \in Keys |-> NoRecord]
    /\ today = 0
    /\ req = [r \in Reqs |-> IdleReq]
    /\ fullLog = [s \in Sessions |-> <<>>]
    /\ turns = 0
    /\ quota_last = [op |-> "", ip |-> "", allowed |-> TRUE, remaining |-> 0]
    /\ recorded = [ip \in Keys |-> 0]

QuotaUnchanged == UNCHANGED <<analysis_counts, today, quota_last, recorded>>
HistoryUnchanged == UNCHANGED <<conversation_history, fullLog>>

(***************************************************************************)
(* routes/chat.py: POST /chat                                              *)
(***************************************************************************)
\* mutant: the fallback context is prepared before the URL detection
ChatStartedEagerContext(r, message, sid, er, ip) ==
    [IdleReq EXCEPT !.endpoint = "chat", !.ip = ip, !.message = message,
                    !.session_id = sid, !.body_er = er, !.expertise_result = er,
                    !.urls = find_urls(message), !.seq = turns + 1,
                    !.listing_context = FallbackContext(NoUrl),
                    !.capped = ~can_analyze(analysis_counts, today, ip),
                    !.pc = IF find_urls(message) # <<>> THEN "scrape" ELSE "chat"]

\* The request arrives: the slowapi decorator either rejects it, or the
\* handler runs up to its first await.
ChatStarted(r, message, sid, er, ip) ==
    [IdleReq EXCEPT !.endpoint = "chat", !.ip = ip, !.message = message,
                    !.session_id = sid, !.body_er = er, !.expertise_result = er,
                    !.urls = find_urls(message), !.seq = turns + 1,
                    !.capped = ~can_analyze(analysis_counts, today, ip),
                    !.pc = IF find_urls(message) # <<>> THEN "scrape" ELSE "chat"]

ChatRequest(r, message, sid, er, ip, limited) ==
    /\ req[r].pc = "idle"
    /\ req' = [req EXCEPT ![r] =
                 IF limited
                 THEN [IdleReq EXCEPT !.endpoint = "chat", !.ip = ip, !.pc = "done",
                                      !.seq = turns + 1,
                                      !.response = RateLimited,
                                      !.capped = ~can_analyze(analysis_counts, today, ip)]
                 ELSE ChatStarted(r, message, sid, er, ip)]
    /\ turns' = turns + 1
    /\ HistoryUnchanged /\ QuotaUnchanged

ScrapeOutcomes == {"ok", "timeout", "http_error", "invalid_url"}

\* url_scraper.scrape_listing: None on a timeout or an HTTP error, the parsed
\* listing otherwise; any other exception is not caught there.
scrape_listing(url, outcome, keys, pageImages) ==
    IF outcome = "ok" THEN ListingOf(url, keys, pageImages) ELSE NoListing

\* mutant: the images of the listing are analysed whatever the request carries
ListingScrapedAlwaysAnalyzes(q, listing) ==
    IF Len(listing.images) > 0
    THEN [q EXCEPT !.listing = listing,
                   !.listing_context = format_listing_context(listing),
                   !.urls_to_try = Take(listing.images, MAX_LISTING_IMAGES + 2),
                   !.pc = "download"]
    ELSE [q EXCEPT !.listing = listing,
                   !.listing_context = format_listing_context(listing),
                   !.pc = "chat"]

\* the `if listing:` branch: the context block, and the image download when
\* the listing has images and no truthy expertise_result came with the request
ListingScraped(q, listing) ==
    IF Len(listing.images) > 0 /\ ~Truthy(q.expertise_result)
    THEN [q EXCEPT !.listing = listing,
                   !.listing_context = format_listing_context(listing),
                   !.urls_to_try = Take(listing.images, MAX_LISTING_IMAGES + 2),
                   !.pc = "download"]
    ELSE [q EXCEPT !.listing = listing,
                   !.listing_context = format_listing_context(listing),
                   !.pc = "chat"]

\* an exception leaving the try block of chat_endpoint: HTTP 500
ChatError(q, detail) ==
    [q EXCEPT !.pc = "done", !.response = Response(500, detail, "", None)]

\* mutant: a failed scrape ends the request with an error
ScrapeFailedPropagates(q) == ChatError(q, "scrape failed")

\* the else branch: scraping failed, minimal fallback context
ScrapeFailed(q) ==
    [q EXCEPT !.listing_context = FallbackContext(q.urls[1]), !.pc = "chat"]

\* the handler after `listing = await scrape_listing(urls[0])`
AfterScrape(q, outcome, listing) ==
    IF outcome = "invalid_url" THEN ChatError(q, "scrape exception")
    ELSE IF ~listing.isNone THEN ListingScraped(q, listing)
    ELSE ScrapeFailed(q)

ScrapeListing(r, outcome, keys, pageImages) ==
    /\ req[r].pc = "scrape"
    /\ req' = [req EXCEPT ![r] =
                 AfterScrape([req[r] EXCEPT !.calls.scrape = @ + 1,
                                            !.scrape_outcome = outcome], outcome,
                             scrape_listing(req[r].urls[1], outcome, keys, pageImages))]
    /\ UNCHANGED turns
    /\ HistoryUnchanged /\ QuotaUnchanged


\* mutant: the loop has no early exit
DownloadLoopDoneNoCap(q) ==
    q.next_img > Len(q.urls_to_try)

\* url_scraper.download_listing_images: one iteration of the loop, the await
\* of client.get included.  The loop ends when the candidates are exhausted
\* or max_images were collected.
DownloadLoopDone(q) ==
    \/ q.next_img > Len(q.urls_to_try)
    \/ Len(q.images_data) >= MAX_LISTING_IMAGES

AfterDownload(q) ==
    IF ~DownloadLoopDone(q) THEN q
    ELSE IF Len(q.images_data) > 0 THEN [q EXCEPT !.pc = "vision"]
    ELSE [q EXCEPT !.pc = "chat"]

DownloadImage(r, ok) ==
    /\ req[r].pc = "download"
    /\ ~DownloadLoopDone(req[r])
    /\ req' = [req EXCEPT ![r] =
                 AfterDownload(
                   [req[r] EXCEPT !.calls.download = @ + 1,
                                  !.next_img = @ + 1,
                                  !.requested =
                                      Append(@, req[r].urls_to_try[req[r].next_img]),
                                  !.dl_results = Append(@, ok),
                                  !.images_data =
                                      IF ok THEN Append(@, req[r].urls_to_try[req[r].next_img])
                                      ELSE @])]
    /\ UNCHANGED turns
    /\ HistoryUnchanged /\ QuotaUnchanged

\* mutant: the analyzer's exception is not caught
AfterListingAnalysisUncaught(q, result) ==
    IF result.raised THEN ChatError(q, result.detail)
    ELSE [q EXCEPT !.expertise_result = result.value, !.pc = "chat"]

\* the try/except around `await analyze_piano_images(images_data, notes)`
AfterListingAnalysis(q, result) ==
    IF result.raised THEN [q EXCEPT !.pc = "chat"]
    ELSE [q EXCEPT !.expertise_result = result.value, !.pc = "chat"]

AnalyzeListing(r, outcome) ==
    /\ req[r].pc = "vision"
    /\ req' = [req EXCEPT ![r] =
                 AfterListingAnalysis(
                   [req[r] EXCEPT !.calls.vision = @ + 1, !.vision_outcome = outcome],
                   analyze_piano_images(outcome))]
    /\ UNCHANGED turns
    /\ HistoryUnchanged /\ QuotaUnchanged


(***************************************************************************)
(* services/openai_chat.py: get_chat_response, called by both handlers.    *)
(* It has no await: building the messages, the OpenAI call and the history *)
(* update are one step.                                                    *)
(***************************************************************************)

\* mutant: the append works on an empty list, dropping what other turns stored
UpdatedHistoryOverwrite(hist, message, sid, reply) ==
    [s \in (DOMAIN hist) \cup {sid} |->
        IF s = sid THEN AppendTurn(<<>>, message, reply)
        ELSE hist[s]]

\* conversation_history after the update of a successful call
UpdatedHistory(hist, message, sid, reply) ==
    [s \in (DOMAIN hist) \cup {sid} |->
        IF s = sid THEN AppendTurn(StoredHistory(hist, sid), message, reply)
        ELSE hist[s]]

\* mutant: the user turn is stored before the OpenAI call is made
HistoryAfterChatEager(hist, message, sid, reply, ok) ==
    IF ok THEN UpdatedHistory(hist, message, sid, reply)
    ELSE [s \in (DOMAIN hist) \cup {sid} |->
             IF s = sid THEN Append(StoredHistory(hist, sid), Entry("user", message))
             ELSE hist[s]]

\* conversation_history after get_chat_response: the update sits after the
\* OpenAI call inside the try block, so a failed call leaves it alone
HistoryAfterChat(hist, message, sid, reply, ok) ==
    IF ok THEN UpdatedHistory(hist, message, sid, reply) ELSE hist

\* the handlers' except clauses around get_chat_response
ChatFailure(endpoint) ==
    IF endpoint = "chat"
    THEN Response(500, "Error calling OpenAI API", "", None)
    ELSE Response(500, "Erreur : Error calling OpenAI API", "", None)


\* mutant: the response carries the record of the request body
AfterChatReturnsBodyRecord(q, hist, ok) ==
    [q EXCEPT !.messages = BuildMessages(hist, q.message, q.session_id,
                                         q.expertise_result, q.listing_context),
              !.history_before = StoredHistory(hist, q.session_id),
              !.calls.chat = @ + 1,
              !.chat_ok = ok,
              !.response = IF ok THEN Response(200, "", Reply, q.body_er)
                           ELSE ChatFailure(q.endpoint),
              !.pc = "done"]

AfterChat(q, hist, ok) ==
    [q EXCEPT !.messages = BuildMessages(hist, q.message, q.session_id,
                                         q.expertise_result, q.listing_context),
              !.history_before = StoredHistory(hist, q.session_id),
              !.calls.chat = @ + 1,
              !.chat_ok = ok,
              !.response = IF ok THEN Response(200, "", Reply, q.expertise_result)
                           ELSE ChatFailure(q.endpoint),
              !.pc = "done"]

GetChatResponse(r, ok) ==
    /\ req[r].pc = "chat"
    /\ req' = [req EXCEPT ![r] = AfterChat(req[r], conversation_history, ok)]
    /\ conversation_history' =
          HistoryAfterChat(conversation_history, req[r].message,
                           req[r].session_id, Reply, ok)
    /\ fullLog' =
          IF ok THEN [fullLog EXCEPT ![req[r].session_id] =
                         @ \o <<Entry("user", req[r].message), Entry("assistant", Reply)>>]
          ELSE fullLog
    /\ UNCHANGED turns
    /\ QuotaUnchanged

(***************************************************************************)
(* routes/chat.py: POST /chat-upload                                       *)
(***************************************************************************)

\* mutant: only the number of images is validated
UploadRejectionCountOnly(images) ==
    IF Len(images) < 1 \/ Len(images) > MAX_IMAGES
    THEN Response(400, "Veuillez envoyer entre 1 et 3 photos", "", None)
    ELSE NoResponse

\* the two validations before the try block
UploadRejection(images) ==
    IF Len(images) < 1 \/ Len(images) > MAX_IMAGES
    THEN Response(400, "Veuillez envoyer entre 1 et 3 photos", "", None)
    ELSE IF \E i \in 1..Len(images) : images[i] \notin ALLOWED_IMAGE_TYPES
    THEN Response(400, "Type de fichier non supporte", "", None)
    ELSE NoResponse

UploadStarted(r, message, sid, images, ip) ==
    IF UploadRejection(images) # NoResponse
    THEN [IdleReq EXCEPT !.endpoint = "chat-upload", !.ip = ip, !.message = message,
                         !.session_id = sid, !.images = images, !.seq = turns + 1,
                         !.capped = ~can_analyze(analysis_counts, today, ip),
                         !.response = UploadRejection(images), !.pc = "done"]
    ELSE [IdleReq EXCEPT !.endpoint = "chat-upload", !.ip = ip, !.message = message,
                         !.session_id = sid, !.images = images, !.seq = turns + 1,
                         !.capped = ~can_analyze(analysis_counts, today, ip),
                         !.images_data = images, !.pc = "vision_upload"]

ChatUploadRequest(r, message, sid, images, ip, limited) ==
    /\ req[r].pc = "idle"
    /\ req' = [req EXCEPT ![r] =
                 IF limited
                 THEN [IdleReq EXCEPT !.endpoint = "chat-upload", !.ip = ip, !.pc = "done",
                                      !.seq = turns + 1,
                                      !.response = RateLimited,
                                      !.capped = ~can_analyze(analysis_counts, today, ip)]
                 ELSE UploadStarted(r, message, sid, images, ip)]
    /\ turns' = turns + 1
    /\ HistoryUnchanged /\ QuotaUnchanged

\* mutant: every exception is wrapped as in chat_endpoint
UploadFailureWrapped(result) == Response(500, "Erreur", "", None)

\* `except HTTPException: raise`: the analyzer's error reaches the caller as is
UploadFailure(result) == Response(result.status, result.detail, "", None)

\* the handler after `await analyze_piano_images(images_data, notes=message or None)`
AfterUploadAnalysis(q, result) ==
    IF result.raised
    THEN [q EXCEPT !.response = UploadFailure(result), !.pc = "done"]
    ELSE [q EXCEPT !.expertise_result = result.value,
                   !.message = IF q.message # EmptyMsg THEN q.message
                               ELSE DefaultUploadMessage,
                   !.pc = "chat"]

AnalyzeUpload(r, outcome) ==
    /\ req[r].pc = "vision_upload"
    /\ req' = [req EXCEPT ![r] =
                 AfterUploadAnalysis(
                   [req[r] EXCEPT !.calls.vision = @ + 1, !.vision_outcome = outcome],
                   analyze_piano_images(outcome))]
    /\ UNCHANGED turns
    /\ HistoryUnchanged /\ QuotaUnchanged

\* the response has been sent; the handler slot is free again
Respond(r) ==
    /\ req[r].pc = "done"
    /\ req' = [req EXCEPT ![r] = IdleReq]
    /\ UNCHANGED turns
    /\ HistoryUnchanged /\ QuotaUnchanged

(***************************************************************************)
(* limiter.py as operations on the shared counter                          *)
(***************************************************************************)
RequestsUnchanged == UNCHANGED <<conversation_history, fullLog, req, turns>>

CanAnalyze(ip) ==
    /\ quota_last' = [op |-> "can_analyze", ip |-> ip,
                      allowed |-> can_analyze(analysis_counts, today, ip),
                      remaining |-> 0]
    /\ UNCHANGED <<analysis_counts, today, recorded>>
    /\ RequestsUnchanged

\* mutant: asking for the remaining analyses counts as one
CountsAfterRemainingRecords(counts, day, ip) == record_analysis(counts, day, ip)

\* analysis_counts after analyses_remaining(ip): the function only reads
CountsAfterRemaining(counts, day, ip) == counts

AnalysesRemaining(ip) ==
    /\ quota_last' = [op |-> "analyses_remaining", ip |-> ip, allowed |-> TRUE,
                      remaining |-> analyses_remaining(analysis_counts, today, ip)]
    /\ analysis_counts' = CountsAfterRemaining(analysis_counts, today, ip)
    /\ UNCHANGED <<today, recorded>>
    /\ RequestsUnchanged

RecordAnalysis(ip) ==
    /\ Stale(analysis_counts, today, ip) \/ analysis_counts[ip].count < MaxCount
    /\ analysis_counts' = record_analysis(analysis_counts, today, ip)
    /\ quota_last' = [op |-> "record_analysis", ip |-> ip, allowed |-> TRUE, remaining |-> 0]
    /\ recorded' = [recorded EXCEPT ![ip] = @ + 1]
    /\ UNCHANGED today
    /\ RequestsUnchanged

\* date.today() moves to the next calendar day; recorded counts the
\* record_analysis calls made for each key on the current day
DayChange ==
    /\ today < MaxDay
    /\ today' = today + 1
    /\ quota_last' = [op |-> "day_change", ip |-> "", allowed |-> TRUE, remaining |-> 0]
    /\ recorded' = [ip \in Keys |-> 0]
    /\ UNCHANGED analysis_counts
    /\ RequestsUnchanged

(***************************************************************************)
(* Specifications                                                          *)
(***************************************************************************)
ChatStep(r) ==
    \/ \E outcome \in ScrapeOutcomes, keys \in ListingKeySets,
          pageImages \in PageImageLists(MaxListingUrls) :
          ScrapeListing(r, outcome, keys, pageImages)
    \/ \E ok \in BOOLEAN : DownloadImage(r, ok)
    \/ \E outcome \in VisionOutcomes : AnalyzeListing(r, outcome)
    \/ \E ok \in BOOLEAN : GetChatResponse(r, ok)
    \/ Respond(r)

\* both endpoints, one handler after the other
Next ==
    \E r \in {"r1"} :
        \/ /\ turns < MaxTurns
           /\ \E m \in Messages, sid \in Sessions, er \in ClientRecords,
                 ip \in Keys, limited \in BOOLEAN :
                 ChatRequest(r, m, sid, er, ip, limited)
        \/ /\ turns < MaxTurns
           /\ \E m \in UploadMessages, sid \in Sessions, images \in Uploads,
                 ip \in Keys, limited \in BOOLEAN :
                 ChatUploadRequest(r, m, sid, images, ip, limited)
        \/ \E outcome \in VisionOutcomes : AnalyzeUpload(r, outcome)
        \/ ChatStep(r)

Spec == Init /\ [][Next]_vars


\* long conversations: text-only turns on the sessions, up to the trim
NextHistory ==
    \E r \in {"r1"} :
        \/ /\ turns < MaxHistoryTurns
           /\ \E m \in HistoryMessages, sid \in Sessions :
                 ChatRequest(r, m, sid, None, "ip1", FALSE)
        \/ \E ok \in BOOLEAN : GetChatResponse(r, ok)
        \/ Respond(r)

SpecHistory == Init /\ [][NextHistory]_vars

\* the quota operations, day changes and photo uploads
NextQuota ==
    \/ \E ip \in Keys : CanAnalyze(ip)
    \/ \E ip \in Keys : AnalysesRemaining(ip)
    \/ \E ip \in Keys : RecordAnalysis(ip)
    \/ DayChange
    \/ \E r \in {"r1"} :
        \/ /\ turns < MaxQuotaTurns
           /\ \E ip \in Keys, limited \in BOOLEAN :
                 ChatUploadRequest(r, PlainMsg, "s1", <<"image/jpeg">>, ip, limited)
        \/ \E outcome \in {"ok_full", "service_error"} : AnalyzeUpload(r, outcome)
        \/ \E ok \in BOOLEAN : GetChatResponse(r, ok)
        \/ Respond(r)

SpecQuota == Init /\ [][NextQuota]_vars

\* two handlers running concurrently, interleaved at their awaits
NextConcurrent ==
    \E r \in Reqs :
        \/ /\ turns < MaxConcurrentTurns
           /\ \E m \in {PlainMsg, KijijiMsg}, sid \in Sessions :
                 ChatRequest(r, m, sid, None, "ip1", FALSE)
        \/ /\ turns < MaxConcurrentTurns
           /\ \E sid \in Sessions :
                 ChatUploadRequest(r, EmptyMsg, sid, <<"image/jpeg">>, "ip1", FALSE)
        \/ \E outcome \in {"ok_minimal", "blocked"} : AnalyzeUpload(r, outcome)
        \/ \E outcome \in {"ok", "timeout"}, pageImages \in PageImageLists(1) :
              ScrapeListing(r, outcome, {}, pageImages)
        \/ \E ok \in BOOLEAN : DownloadImage(r, ok)
        \/ \E outcome \in {"ok_minimal", "service_error"} : AnalyzeListing(r, outcome)
        \/ \E ok \in BOOLEAN : GetChatResponse(r, ok)
        \/ Respond(r)

SpecConcurrent == Init /\ [][NextConcurrent]_vars

\* the image download of a listing with more candidates than are tried
NextDownload ==
    \E r \in {"r1"} :
        \/ /\ turns < MaxDownloadTurns
           /\ \E m \in {KijijiMsg, TwoUrlMsg} :
                 ChatRequest(r, m, "s1", None, "ip1", FALSE)
        \/ \E pageImages \in PageImageLists(MaxDownloadUrls) :
              ScrapeListing(r, "ok", {}, pageImages)
        \/ \E ok \in BOOLEAN : DownloadImage(r, ok)
        \/ \E outcome \in {"ok_full", "empty"} : AnalyzeListing(r, outcome)
        \/ \E ok \in BOOLEAN : GetChatResponse(r, ok)
        \/ Respond(r)

SpecDownload == Init /\ [][NextDownload]_vars


(***************************************************************************)
(* Properties                                                              *)
(***************************************************************************)
Min(a, b) == IF a < b THEN a ELSE b

\* the last n elements of a sequence
LastN(s, n) == SubSeq(s, Len(s) - n + 1, Len(s))

\* handlers that have called get_chat_response and hold its outcome
ChatCalled(r) == req[r].pc = "done" /\ req[r].calls.chat = 1

\* C1: after any sequence of successful turns, the stored history of every
\* session has at most 20 entries and is the most recent (at most 20)
\* entries of everything appended to that session, in append order.
C1_HistoryIsRecentWindow ==
    \A s \in Sessions :
        LET h == StoredHistory(conversation_history, s)
        IN /\ Len(h) <= RetentionWindow
           /\ Len(h) = Min(Len(fullLog[s]), RetentionWindow)
           /\ h = LastN(fullLog[s], Len(h))

\* a session whose oldest turn has been trimmed away
C1_Witness ==
    \E s \in Sessions :
        /\ Len(fullLog[s]) > RetentionWindow
        /\ Len(StoredHistory(conversation_history, s)) = RetentionWindow
        /\ fullLog[s][1].content # fullLog[s][3].content

\* The number of blocks of a kind in a messages list
CountKind(msgs, kind) == Cardinality({i \in 1..Len(msgs) : msgs[i].kind = kind})

\* The shape of the messages sent by handler r, given whether an analysis
\* record and a listing context count as existing: system prompt, analysis
\* block, listing block, the history stored when the call was made, user turn.
MessagesInOrder(r, hasAnalysis, hasListing) ==
    LET q == req[r]
        m == q.messages
        h == q.history_before
        nA == IF hasAnalysis THEN 1 ELSE 0
        nL == IF hasListing THEN 1 ELSE 0
    IN /\ Len(m) = 2 + nA + nL + Len(h)
       /\ m[1] = Block("system", "system_prompt", <<SystemPrompt>>)
       /\ CountKind(m, "system_prompt") = 1
       /\ CountKind(m, "analysis") = nA
       /\ hasAnalysis =>
             m[2] = Block("system", "analysis", RenderAnalysis(q.expertise_result))
       /\ CountKind(m, "listing") = nL
       /\ hasListing => m[2 + nA] = Block("system", "listing", q.listing_context)
       /\ \A i \in 1..Len(h) :
             /\ m[1 + nA + nL + i].role = h[i].role
             /\ m[1 + nA + nL + i].content = <<h[i].content>>
             /\ m[1 + nA + nL + i].kind = "history"
       /\ m[Len(m)] = Block("user", "user", <<q.message>>)

\* C2 as stated: the analysis block is present iff an Analysis Record exists
\* (is not None), the listing block iff a listing context exists.
C2_AsStated ==
    \A r \in Reqs :
        ChatCalled(r) =>
            MessagesInOrder(r, ~req[r].expertise_result.isNone,
                            req[r].listing_context # NoContext)

\* C2 (amended): the messages sent are the system prompt, then one analysis
\* block iff a non-empty Analysis Record exists (an empty dict counts as
\* absent), then one listing block iff a listing context exists, then the
\* stored history in stored order, then the new user turn.
C2_MessageOrder ==
    \A r \in Reqs :
        ChatCalled(r) =>
            MessagesInOrder(r, Truthy(req[r].expertise_result),
                            req[r].listing_context # NoContext)

\* a second turn of a session, sent with analysis, listing context and history
C2_Witness ==
    \E r \in Reqs :
        /\ ChatCalled(r)
        /\ Truthy(req[r].expertise_result)
        /\ req[r].listing_context # NoContext
        /\ Len(req[r].history_before) = 2
        /\ Len(req[r].messages) = 6


\* the scrape of handler r failed: unreachable or non-2xx, or timeout
ExtractorFailed(r) ==
    /\ req[r].endpoint = "chat"
    /\ req[r].calls.scrape = 1
    /\ req[r].scrape_outcome \in {"timeout", "http_error"}

\* a listing block that is the fallback context naming url
IsFallbackNaming(block, url) ==
    /\ block.kind = "listing"
    /\ block.content[1] = "Le client a partage un lien d'annonce"
    /\ \E j \in 1..Len(block.content) : block.content[j] = url

\* C3: in /chat, when the message has a URL and scraping it fails, the
\* messages sent contain the fallback block naming the first URL of the
\* message, and the turn returns the reply whenever the Chat Responder
\* succeeds.
C3_ScrapeFailureDegrades ==
    \A r \in Reqs :
        ExtractorFailed(r) =>
            /\ req[r].pc \in {"chat", "done"}
            /\ req[r].pc = "done" =>
                  /\ req[r].calls.chat = 1
                  /\ \E i \in 1..Len(req[r].messages) :
                        IsFallbackNaming(req[r].messages[i], find_urls(req[r].message)[1])
                  /\ req[r].chat_ok =>
                        /\ req[r].response.status = 200
                        /\ req[r].response.reply = Reply

\* a turn answered after the scrape of its URL timed out
C3_Witness ==
    \E r \in Reqs :
        /\ ExtractorFailed(r)
        /\ req[r].scrape_outcome = "timeout"
        /\ req[r].pc = "done"
        /\ req[r].response.status = 200

\* C4 as stated: any client-supplied record, the empty dict included
C4_AsStated ==
    \A r \in Reqs :
        (req[r].endpoint = "chat" /\ ~req[r].body_er.isNone) =>
            (req[r].calls.download = 0 /\ req[r].calls.vision = 0)

\* C4 (amended): in /chat, when the request carries a non-empty Analysis
\* Record, no listing image is downloaded and the Vision Analyzer is not
\* invoked, even if the scraped listing has images.
C4_NoReanalysis ==
    \A r \in Reqs :
        (req[r].endpoint = "chat" /\ Truthy(req[r].body_er)) =>
            (req[r].calls.download = 0 /\ req[r].calls.vision = 0)

\* a turn with a client record answered after scraping a listing with images
C4_Witness ==
    \E r \in Reqs :
        /\ req[r].endpoint = "chat"
        /\ Truthy(req[r].body_er)
        /\ Len(req[r].listing.images) > 0
        /\ req[r].pc = "done"
        /\ req[r].response.status = 200

\* the secondary enrichment of handler r failed: the download loop ended
\* with no image, or analyze_piano_images raised
EnrichmentFailed(r) ==
    /\ req[r].endpoint = "chat"
    /\ \/ /\ req[r].calls.download > 0
          /\ req[r].pc \in {"chat", "done"}
          /\ req[r].images_data = <<>>
       \/ /\ req[r].calls.vision = 1
          /\ analyze_piano_images(req[r].vision_outcome).raised

\* C5: in /chat, a failure of the secondary enrichment never fails the turn:
\* it goes on without an analysis record, keeps the scraped listing block
\* and calls the Chat Responder, whose outcome alone decides the response.
C5_EnrichmentFailureSwallowed ==
    \A r \in Reqs :
        EnrichmentFailed(r) =>
            /\ req[r].pc \in {"chat", "done"}
            /\ ~Truthy(req[r].expertise_result)
            /\ req[r].listing_context = format_listing_context(req[r].listing)
            /\ req[r].pc = "done" =>
                  /\ req[r].calls.chat = 1
                  /\ CountKind(req[r].messages, "analysis") = 0
                  /\ \E i \in 1..Len(req[r].messages) :
                        req[r].messages[i] =
                            Block("system", "listing", format_listing_context(req[r].listing))
                  /\ req[r].chat_ok <=> req[r].response.status = 200
                  /\ req[r].chat_ok => ~Truthy(req[r].response.expertise_result)

\* a turn answered although the analysis of the listing images was rejected
C5_Witness ==
    \E r \in Reqs :
        /\ EnrichmentFailed(r)
        /\ req[r].vision_outcome = "blocked"
        /\ req[r].pc = "done"
        /\ req[r].response.status = 200

\* a turn answered although no listing image could be downloaded
C5_WitnessDownload ==
    \E r \in Reqs :
        /\ EnrichmentFailed(r)
        /\ req[r].calls.vision = 0
        /\ req[r].pc = "done"
        /\ req[r].response.status = 200

\* C6: a /chat-upload request of a key whose daily analysis quota is at its
\* cap is answered with the throttling response and calls neither the
\* Vision Analyzer nor the Chat Responder.
C6_CappedUploadMakesNoCalls ==
    \A r \in Reqs :
        (req[r].endpoint = "chat-upload" /\ req[r].capped) =>
            /\ req[r].calls.vision = 0
            /\ req[r].calls.chat = 0
            /\ req[r].pc = "done" => req[r].response = RateLimited

\* C7: analyses_remaining leaves the counters as they are and changes the
\* result of can_analyze for no key.
C7_RemainingReadsOnly ==
    [][quota_last'.op = "analyses_remaining" =>
          /\ analysis_counts' = analysis_counts
          /\ \A ip \in Keys :
                can_analyze(analysis_counts', today', ip)
                    = can_analyze(analysis_counts, today, ip)]_vars

\* analyses_remaining was asked for a key at its cap
C7_Witness ==
    /\ quota_last.op = "analyses_remaining"
    /\ quota_last.remaining = 0
    /\ ~can_analyze(analysis_counts, today, quota_last.ip)

\* C8: in /chat, a message without URL causes no scrape, no image download
\* and no vision analysis, and the messages sent hold no listing block.
C8_NoUrlNoEnrichment ==
    \A r \in Reqs :
        (req[r].endpoint = "chat" /\ find_urls(req[r].message) = <<>>) =>
            /\ req[r].calls.scrape = 0
            /\ req[r].calls.download = 0
            /\ req[r].calls.vision = 0
            /\ req[r].listing_context = NoContext
            /\ ChatCalled(r) => CountKind(req[r].messages, "listing") = 0

\* a turn without URL answered on a session that already had history
C8_Witness ==
    \E r \in Reqs :
        /\ req[r].endpoint = "chat"
        /\ req[r].message = PlainMsg
        /\ ChatCalled(r)
        /\ req[r].response.status = 200
        /\ req[r].history_before # <<>>

\* C9: a failed Chat Responder call ends the turn with an error and changes
\* no stored history; the history of a session changes only in the step of a
\* successful call, by the user turn and the reply together (then trimmed).
C9_FailedChatLeavesHistory ==
    [][/\ \A r \in Reqs :
             (req[r].pc = "chat" /\ req'[r].pc = "done" /\ ~req'[r].chat_ok) =>
                 /\ conversation_history' = conversation_history
                 /\ req'[r].response.status = 500
       /\ \A s \in Sessions :
             StoredHistory(conversation_history', s) # StoredHistory(conversation_history, s) =>
                 \E r \in Reqs :
                     /\ req[r].pc = "chat" /\ req'[r].pc = "done" /\ req'[r].chat_ok
                     /\ req[r].session_id = s
                     /\ StoredHistory(conversation_history', s) =
                           TrimHistory(StoredHistory(conversation_history, s)
                                       \o <<Entry("user", req[r].message),
                                            Entry("assistant", req'[r].response.reply)>>)
      ]_vars

\* a failed call on a session whose history another turn had filled
C9_Witness ==
    \E r \in Reqs :
        /\ ChatCalled(r)
        /\ ~req[r].chat_ok
        /\ req[r].response.status = 500
        /\ req[r].history_before # <<>>
        /\ StoredHistory(conversation_history, req[r].session_id) = req[r].history_before

\* the analysis of the uploaded photos failed in one of the three ways
UploadVisionFailed(q) ==
    /\ q.endpoint = "chat-upload"
    /\ q.calls.vision = 1
    /\ q.vision_outcome \in {"service_error", "blocked", "empty"}

\* the error the caller is to see for each failure of the analyzer
UploadErrorOf(outcome) ==
    CASE outcome = "service_error" ->
             Response(502, "Erreur de communication avec le service d'analyse", "", None)
      [] outcome = "blocked" -> Response(422, "L'image n'a pas pu etre analysee", "", None)
      [] outcome = "empty" ->
             Response(502, "Le service d'analyse a retourne une reponse vide", "", None)

\* C10: in /chat-upload a failure of the Vision Analyzer reaches the caller as
\* an error that tells service error, rejected content and empty response
\* apart; the Chat Responder is not called and no history changes.
C10_UploadVisionFailureSurfaced ==
    /\ [](\A r \in Reqs :
            UploadVisionFailed(req[r]) =>
                /\ req[r].pc = "done"
                /\ req[r].response = UploadErrorOf(req[r].vision_outcome)
                /\ \A o \in {"service_error", "blocked", "empty"} \ {req[r].vision_outcome} :
                      req[r].response # UploadErrorOf(o)
                /\ req[r].calls.chat = 0
                /\ req[r].messages = <<>>)
    /\ [][\A r \in Reqs :
            (req'[r] # req[r] /\ UploadVisionFailed(req'[r])) =>
                conversation_history' = conversation_history]_vars

\* an upload rejected by the analyzer on a session that keeps its history
C10_Witness ==
    \E r \in Reqs :
        /\ UploadVisionFailed(req[r])
        /\ req[r].vision_outcome = "blocked"
        /\ req[r].response.status = 422
        /\ StoredHistory(conversation_history, req[r].session_id) # <<>>

(***************************************************************************)
(* C11: two concurrent turns on one session                                *)
(***************************************************************************)
\* a turn whose chat call succeeded and whose answer is not yet sent
ChatSucceeded(r) == ChatCalled(r) /\ req[r].chat_ok

\* C11 as stated: a turn reads the session's history in one step and appends
\* to it in a later one, so that another turn can act in between: the step
\* in which a turn's prompt is built leaves the stored history alone.
C11_AsStated ==
    [][\A r \in Reqs :
          req'[r].messages # req[r].messages =>
              conversation_history' = conversation_history]_vars

\* C11 (amended): turns on one session interleave only at the awaits before
\* the chat call; reading the history and appending to it is one step.  So
\* every successful turn's user/assistant pair sits contiguously right after
\* the history the turn read (as long as nothing was trimmed), no pair is
\* missing, and two successful turns hold different places.
C11_ConcurrentTurnsBothStored ==
    /\ \A r \in Reqs :
          (ChatSucceeded(r) /\ Len(fullLog[req[r].session_id]) <= RetentionWindow) =>
              LET h == StoredHistory(conversation_history, req[r].session_id)
                  k == Len(req[r].history_before)
              IN /\ Len(h) >= k + 2
                 /\ SubSeq(h, 1, k) = req[r].history_before
                 /\ h[k + 1] = [role |-> "user", content |-> req[r].message]
                 /\ h[k + 2] = [role |-> "assistant", content |-> req[r].response.reply]
    /\ \A a, b \in Reqs :
          (a # b /\ ChatSucceeded(a) /\ ChatSucceeded(b)
           /\ req[a].session_id = req[b].session_id
           /\ Len(fullLog[req[a].session_id]) <= RetentionWindow) =>
              Len(req[a].history_before) # Len(req[b].history_before)

\* two turns of one session overlapped: the one that arrived first made its
\* chat call second, and both pairs are stored
C11_Witness ==
    \E a, b \in Reqs :
        /\ a # b /\ ChatSucceeded(a) /\ ChatSucceeded(b)
        /\ req[a].session_id = req[b].session_id
        /\ req[a].seq < req[b].seq
        /\ Len(req[a].history_before) = Len(req[b].history_before) + 2
        /\ Len(StoredHistory(conversation_history, req[a].session_id)) =
              Len(req[a].history_before) + 2

(***************************************************************************)
(* C12: external calls of one turn                                         *)
(***************************************************************************)
\* the three services are called at most once by a turn
ServicesCalledOnce(r) ==
    /\ req[r].calls.scrape <= 1
    /\ req[r].calls.vision <= 1
    /\ req[r].calls.chat <= 1

\* C12: within one turn the Listing Extractor, the Vision Analyzer and the
\* Chat Responder are each invoked at most once, and no listing image URL is
\* requested twice (so no failed request is repeated).
C12_EachCallAtMostOnce ==
    \A r \in Reqs :
        /\ ServicesCalledOnce(r)
        /\ \A i, j \in 1..Len(req[r].requested) :
              req[r].requested[i] = req[r].requested[j] => i = j

(***************************************************************************)
(* C13: the Analysis Record of a /chat response                            *)
(***************************************************************************)
\* a /chat turn answered with HTTP 200
ChatAnswered(r) ==
    /\ req[r].endpoint = "chat"
    /\ req[r].pc = "done"
    /\ req[r].response.status = 200

\* the secondary vision analysis of the turn ran and returned a record
SecondarySucceeded(r) ==
    /\ req[r].calls.vision = 1
    /\ ~analyze_piano_images(req[r].vision_outcome).raised

\* the record er is the one rendered into the prompt of r: one analysis
\* block made from it when it is there, no analysis block when it is not
RenderedIntoPrompt(r, er, there) ==
    IF there
    THEN /\ CountKind(req[r].messages, "analysis") = 1
         /\ \E i \in 1..Len(req[r].messages) :
               /\ req[r].messages[i].kind = "analysis"
               /\ req[r].messages[i].content = RenderAnalysis(er)
    ELSE CountKind(req[r].messages, "analysis") = 0

\* C13 as stated: the returned record is the client's when the request body
\* carried one (an empty record {} is a record), else the fresh one when the
\* secondary analysis succeeded, else absent; and it is the rendered one.
C13_AsStated ==
    \A r \in Reqs :
        ChatAnswered(r) =>
            LET ret == req[r].response.expertise_result
            IN /\ ret = (IF ~req[r].body_er.isNone THEN req[r].body_er
                         ELSE IF SecondarySucceeded(r)
                              THEN analyze_piano_images(req[r].vision_outcome).value
                              ELSE None)
               /\ RenderedIntoPrompt(r, ret, ~ret.isNone)

\* C13 (amended): the returned record is the client's when that is non-empty,
\* else the fresh one when the secondary analysis succeeded, else what the
\* client sent (nothing, or {}); a non-empty returned record is the one
\* rendered into the prompt, an empty or absent one yields no analysis block.
C13_ResolvedRecord ==
    \A r \in Reqs :
        ChatAnswered(r) =>
            LET ret == req[r].response.expertise_result
            IN /\ ret = (IF Truthy(req[r].body_er) THEN req[r].body_er
                         ELSE IF SecondarySucceeded(r)
                              THEN analyze_piano_images(req[r].vision_outcome).value
                              ELSE req[r].body_er)
               /\ RenderedIntoPrompt(r, ret, Truthy(ret))

\* the client sent {} and the turn returned the freshly computed record
C13_Witness ==
    \E r \in Reqs :
        /\ ChatAnswered(r)
        /\ req[r].body_er = EmptyDict
        /\ SecondarySucceeded(r)
        /\ req[r].response.expertise_result = VisionFull
        /\ CountKind(req[r].messages, "analysis") = 1

(***************************************************************************)
(* C14: invalid uploads                                                    *)
(***************************************************************************)
\* the image count is outside 1..MAX_IMAGES or some image has another type
InvalidUpload(images) ==
    \/ Len(images) \notin 1..MAX_IMAGES
    \/ \E i \in 1..Len(images) : images[i] \notin ALLOWED_IMAGE_TYPES

\* C14: a /chat-upload request with an image count outside 1-3 or with an
\* image of a type other than jpeg/png/webp/gif is answered with a client
\* error (4xx) without any Vision Analyzer or Chat Responder call, and the
\* step that receives it changes no session history.
C14_InvalidUploadRejected ==
    /\ [](\A r \in Reqs :
            (req[r].endpoint = "chat-upload" /\ InvalidUpload(req[r].images)) =>
                /\ req[r].pc = "done"
                /\ req[r].response.status \in 400..499
                /\ req[r].calls = NoCalls
                /\ req[r].messages = <<>>)
    /\ [][\A r \in Reqs :
            (req[r].pc = "idle" /\ req'[r].endpoint = "chat-upload"
             /\ InvalidUpload(req'[r].images)) =>
                /\ conversation_history' = conversation_history
                /\ req'[r].pc = "done"]_vars

\* an upload with a PDF among two files was refused with 400 on a session
\* that has a history
C14_Witness ==
    \E r \in Reqs :
        /\ req[r].endpoint = "chat-upload"
        /\ req[r].pc = "done"
        /\ Len(req[r].images) = 2
        /\ InvalidUpload(req[r].images)
        /\ req[r].response.status = 400
        /\ req[r].calls = NoCalls
        /\ StoredHistory(conversation_history, req[r].session_id) # <<>>

(***************************************************************************)
(* C15: the daily analysis quota                                           *)
(***************************************************************************)
\* C15: can_analyze(key) is true exactly when fewer than 3 record_analysis(key)
\* calls were made on the current day, and so is the answer it last gave; a
\* record of the current day holds that number of calls (the first call of a
\* day stores 1), and a key with calls on the current day has such a record.
C15_QuotaCountsCurrentDay ==
    /\ \A ip \in Keys :
          /\ can_analyze(analysis_counts, today, ip) <=>
                recorded[ip] < MAX_ANALYSES_PER_DAY
          /\ (analysis_counts[ip].present /\ analysis_counts[ip].date = today) =>
                analysis_counts[ip].count = recorded[ip]
          /\ recorded[ip] > 0 =>
                (analysis_counts[ip].present /\ analysis_counts[ip].date = today)
    /\ quota_last.op = "can_analyze" =>
          (quota_last.allowed <=> recorded[quota_last.ip] < MAX_ANALYSES_PER_DAY)

\* a key that used up its quota on an earlier day is allowed again: the
\* stored record still says 3 or more, and can_analyze answered true
C15_Witness ==
    \E ip \in Keys :
        /\ analysis_counts[ip].present
        /\ analysis_counts[ip].date < today
        /\ analysis_counts[ip].count >= MAX_ANALYSES_PER_DAY
        /\ quota_last.op = "can_analyze"
        /\ quota_last.ip = ip
        /\ quota_last.allowed

(***************************************************************************)
(* C16: the sections of the analysis block                                 *)
(***************************************************************************)
\* The section a rendered line belongs to, numbered in the stated order:
\* 1 header, 2 alerts, 3 brand history, 4 sub-scores, 5 problems, 6 positive
\* points, 7 recommended work, 8 values, 9 restoration potential, urgency,
\* contextual recommendation and next step, 10 expert comment, 11 closing
\* instructions.  Blank lines and the record's tag belong to no section (0).
SectionOf(line) ==
    CASE line \in {"## RESULTAT D'EXPERTISE PIANO", "Marque", "Modele", "Age estime",
                   "Verdict", "Score global", "Type de mecanique",
                   "Recommandation d'achat"} -> 1
      [] line = "ALERTES" -> 2
      [] line \in {"Historique de la marque", "- Historique de la marque"} -> 3
      [] line \in {"Etat general", "Etat du clavier", "Etat du boitier",
                   "Mecanique visible"} -> 4
      [] line = "Problemes detectes" -> 5
      [] line = "Points positifs" -> 6
      [] line = "Travaux recommandes" -> 7
      [] line \in {"Valeur sans travaux", "Valeur avec travaux"} -> 8
      [] line \in {"Potentiel de restauration", "Urgence d'intervention",
                   "Recommandation contextuelle", "Prochaine etape recommandee"} -> 9
      [] line = "Commentaire expert" -> 10
      [] line \in {"Utilise TOUTES ces informations", "- Photos recues du client",
                   "- Photos supplementaires suggerees", "- Photos suffisantes",
                   "Utilise ces informations pour personnaliser tes reponses"} -> 11
      [] OTHER -> 0

\* the lines of a block go through the sections in order, and the brand
\* history is one line
SectionsOnceInOrder(content) ==
    /\ \A i, j \in 1..Len(content) :
          (i < j /\ SectionOf(content[i]) # 0 /\ SectionOf(content[j]) # 0) =>
              SectionOf(content[i]) <= SectionOf(content[j])
    /\ Cardinality({i \in 1..Len(content) : SectionOf(content[i]) = 3}) <= 1

\* C16: the analysis block of every prompt renders its sections in the
\* stated order, each present section once.
C16_SectionsOnceInOrder ==
    \A r \in Reqs :
        \A i \in 1..Len(req[r].messages) :
            req[r].messages[i].kind = "analysis" =>
                SectionsOnceInOrder(req[r].messages[i].content)

(***************************************************************************)
(* C17: download_listing_images                                            *)
(***************************************************************************)
\* download_listing_images was called by the turn of handler r
DownloadCalled(r) == ~req[r].listing.isNone /\ req[r].urls_to_try # <<>>

\* the entries of urls whose request succeeded, in the order of urls
RECURSIVE Collected(_, _)
Collected(urls, results) ==
    IF urls = <<>> THEN <<>>
    ELSE LET n == Len(urls)
             front == Collected(SubSeq(urls, 1, n - 1), SubSeq(results, 1, n - 1))
         IN IF results[n] THEN Append(front, urls[n]) ELSE front

\* C17: the URLs requested so far are, in order, the first ones of the
\* listing's first cap+2 (cap = 3) image URLs; the images collected are those
\* whose request succeeded, in that order, never more than cap; the loop goes
\* on while fewer than cap are collected and candidates remain, and ends with
\* the request that collects the cap-th image.
C17_DownloadsInOrderUpToCap ==
    \A r \in Reqs :
        DownloadCalled(r) =>
            LET imgs == req[r].listing.images
                cand == SubSeq(imgs, 1, Min(Len(imgs), MAX_LISTING_IMAGES + 2))
                n == Len(req[r].requested)
                got == req[r].images_data
            IN /\ n <= Len(cand)
               /\ req[r].requested = SubSeq(cand, 1, n)
               /\ Len(req[r].dl_results) = n
               /\ got = Collected(req[r].requested, req[r].dl_results)
               /\ Len(got) <= MAX_LISTING_IMAGES
               /\ req[r].pc = "download" <=>
                     (Len(got) < MAX_LISTING_IMAGES /\ n < Len(cand))
               /\ Len(got) = MAX_LISTING_IMAGES => req[r].dl_results[n]

\* a listing with six images: the first two downloads failed, the next three
\* succeeded, and the sixth image was never a candidate
C17_Witness ==
    \E r \in Reqs :
        /\ DownloadCalled(r)
        /\ Len(req[r].listing.images) = MAX_LISTING_IMAGES + 3
        /\ req[r].pc # "download"
        /\ Len(req[r].requested) = MAX_LISTING_IMAGES + 2
        /\ req[r].dl_results = <<FALSE, FALSE, TRUE, TRUE, TRUE>>
        /\ req[r].images_data = SubSeq(req[r].listing.images, 3, 5)

(***************************************************************************)
(* C18: shape of a stored history                                          *)
(***************************************************************************)
\* C18: in every state every session's stored history has even length and
\* alternates user, assistant, ... starting with a user entry; its entries
\* are {role, content} pairs, none of them a system block.
C18_HistoryAlternates ==
    \A s \in DOMAIN conversation_history :
        LET h == conversation_history[s]
        IN /\ Len(h) % 2 = 0
           /\ \A i \in 1..Len(h) :
                 /\ DOMAIN h[i] = {"role", "content"}
                 /\ h[i].role = (IF i % 2 = 1 THEN "user" ELSE "assistant")
                 /\ h[i].role # "system"

\* a history that lost its oldest exchange to the trim still begins with a
\* user entry and ends with the assistant's reply
C18_Witness ==
    \E s \in DOMAIN conversation_history :
        LET h == conversation_history[s]
        IN /\ Len(fullLog[s]) = RetentionWindow + 2
           /\ Len(h) = RetentionWindow
           /\ h[1] = fullLog[s][3]
           /\ h[1].role = "user"
           /\ h[Len(h)] = [role |-> "assistant", content |-> Reply]

(***************************************************************************)
(* C19: sessions are isolated                                              *)
(***************************************************************************)
\* the session of the turn that handler r works on in the current step
TurnSession(r) ==
    IF req[r].pc = "idle" THEN req'[r].session_id ELSE req[r].session_id

\* the history blocks of a prompt, in order
HistoryPart(msgs) == SelectSeq(msgs, LAMBDA b : b.kind = "history")

\* the entries stored for session s, as prompt blocks
OwnHistoryBlocks(s) ==
    IF s \in DOMAIN conversation_history
    THEN [i \in 1..Len(conversation_history[s]) |->
            [role |-> conversation_history[s][i].role, kind |-> "history",
             content |-> <<conversation_history[s][i].content>>]]
    ELSE <<>>

\* C19: every step of a turn on session A, whether the turn succeeds or
\* fails, leaves the stored history of every other session as it was
\* (creating none), and the history entries of the prompt built by the turn
\* are exactly the entries stored for A when the prompt is built.
C19_SessionsIsolated ==
    [][\A r \in Reqs :
          req'[r] # req[r] =>
              /\ \A B \in Sessions \ {TurnSession(r)} :
                    /\ B \in DOMAIN conversation_history' <=>
                          B \in DOMAIN conversation_history
                    /\ B \in DOMAIN conversation_history =>
                          conversation_history'[B] = conversation_history[B]
              /\ (req[r].pc = "chat" /\ req'[r].pc = "done") =>
                    HistoryPart(req'[r].messages) = OwnHistoryBlocks(req[r].session_id)
      ]_vars

\* a turn on a new session got a prompt without history entries while
\* another session had a stored history
C19_Witness ==
    \E r \in Reqs :
        /\ ChatSucceeded(r)
        /\ HistoryPart(req[r].messages) = <<>>
        /\ \E B \in Sessions \ {req[r].session_id} :
              /\ B \in DOMAIN conversation_history
              /\ Len(conversation_history[B]) = 2
        /\ Len(conversation_history[req[r].session_id]) = 2

====
